---------------------------- MODULE Spec2Model ----------------------------
(***************************************************************************)
(* A model of scrape_data.py: the script's main loop, create_cabinet_csv   *)
(* (fetch, per-table normalisation, field derivation, column ordering,     *)
(* save) and combine_cabinets (read back, concatenate, save).              *)
(*                                                                         *)
(* Text is a TLA+ string; Len, SubSeq and \o act on it character by        *)
(* character.  Two characters the source's patterns name cannot be written *)
(* in a TLA+ string: "~" stands for the en dash (U+2013) and "=" for the   *)
(* em dash (U+2014).  Table cells come from pandas.read_html, which        *)
(* collapses runs of whitespace, so a cell never holds a line break.       *)
(*                                                                         *)
(* A cell is a one-field record: [s |-> text], [i |-> integer],            *)
(* [f |-> whole number held as a float], [b |-> boolean],                  *)
(* [d |-> <<year, month, day>>], or NA (absent).  The number of an integer *)
(* or float cell is kept as its decimal numeral without leading zeros, so  *)
(* that a long run of digits is a number of any size.                      *)
(* A data frame is [cols, dtypes, rows]: column labels, one dtype per      *)
(* column ("object" or "num"), and rows of cells by column position.       *)
(***************************************************************************)
EXTENDS Integers, Sequences, FiniteSets, TLC

VARIABLES sources, k, pc, df_list, i, processed_dfs, final_df,
          results, csv_files, storage, dfs, j, combined_df

vars == <<sources, k, pc, df_list, i, processed_dfs, final_df,
          results, csv_files, storage, dfs, j, combined_df>>

----------------------------------------------------------------------------
(* Characters and text                                                     *)

\* The character at position n; "" past either end.
Chr(s, n) == IF n \in 1..Len(s) THEN SubSeq(s, n, n) ELSE ""

From(s, n) == SubSeq(s, n, Len(s))

StartsWithAt(s, n, p) ==
    /\ n >= 1
    /\ n + Len(p) - 1 <= Len(s)
    /\ SubSeq(s, n, n + Len(p) - 1) = p

Contains(s, p) == \E n \in 1..(Len(s) - Len(p) + 1) : StartsWithAt(s, n, p)

DigitChars == "0123456789"

UpperChars == "ABCDEFGHIJKLMNOPQRSTUVWXYZ"

LowerChars == "abcdefghijklmnopqrstuvwxyz"

IndexIn(alphabet, c) ==
    IF \E n \in 1..Len(alphabet) : Chr(alphabet, n) = c
    THEN CHOOSE n \in 1..Len(alphabet) : Chr(alphabet, n) = c
    ELSE 0

CharsOf(alphabet) == {Chr(alphabet, n) : n \in 1..Len(alphabet)}

Digits == CharsOf(DigitChars)

Letters == CharsOf(UpperChars) \cup CharsOf(LowerChars)

IsDigit(c) == c \in Digits

IsAlpha(c) == c \in Letters

IsSpace(c) == c = " "

LowerChr(c) ==
    IF IndexIn(UpperChars, c) > 0 THEN Chr(LowerChars, IndexIn(UpperChars, c)) ELSE c

RECURSIVE LowerStr(_)
LowerStr(s) == IF s = "" THEN "" ELSE LowerChr(Chr(s, 1)) \o LowerStr(From(s, 2))

DigitsAt(s, n, count) ==
    /\ n >= 1
    /\ n + count - 1 <= Len(s)
    /\ \A m \in n..(n + count - 1) : IsDigit(Chr(s, m))

\* The position after the run of whitespace (of digits) that starts at n.
RECURSIVE SkipSpaces(_, _)
SkipSpaces(s, n) == IF n <= Len(s) /\ IsSpace(Chr(s, n)) THEN SkipSpaces(s, n + 1) ELSE n

RECURSIVE SkipDigits(_, _)
SkipDigits(s, n) == IF n <= Len(s) /\ IsDigit(Chr(s, n)) THEN SkipDigits(s, n + 1) ELSE n

RECURSIVE RStripEnd(_, _)
RStripEnd(s, n) == IF n >= 1 /\ IsSpace(Chr(s, n)) THEN RStripEnd(s, n - 1) ELSE n

\* str.strip()
Strip(s) == SubSeq(s, SkipSpaces(s, 1), RStripEnd(s, Len(s)))

RECURSIVE StrToNat(_)
StrToNat(s) ==
    IF s = "" THEN 0
    ELSE 10 * StrToNat(SubSeq(s, 1, Len(s) - 1)) + (IndexIn(DigitChars, Chr(s, Len(s))) - 1)

----------------------------------------------------------------------------
(* Cells and frames                                                        *)

NA == [na |-> TRUE]

Txt(t) == [s |-> t]

IsText(c) == DOMAIN c = {"s"}

IsNA(c) == c = NA

EmptyDF == [cols |-> <<>>, dtypes |-> <<>>, rows |-> <<>>]

ColIndex(cols, name) ==
    IF \E n \in 1..Len(cols) : cols[n] = name
    THEN CHOOSE n \in 1..Len(cols) : cols[n] = name /\ \A m \in 1..(n - 1) : cols[m] # name
    ELSE 0

HasCol(df, name) == ColIndex(df.cols, name) > 0

\* The cell of row r under the (first) column called name; NA without one.
CellOf(df, r, name) ==
    IF HasCol(df, name) THEN df.rows[r][ColIndex(df.cols, name)] ELSE NA

Range(seq) == {seq[n] : n \in 1..Len(seq)}

NoDuplicates(seq) == \A m, n \in 1..Len(seq) : m # n => seq[m] # seq[n]

\* The elements of seq at the positions idx, in that order.
Pick(seq, idx) == [n \in 1..Len(idx) |-> seq[idx[n]]]

\* The positions of the set S, ascending.
Ascending(S) ==
    [m \in 1..Cardinality(S) |->
       CHOOSE n \in S : Cardinality({x \in S : x < n}) = m - 1]

\* df[name] = values: a new last column, or every column called name replaced.
SetColumn(df, name, dtype, values) ==
    IF HasCol(df, name)
    THEN [df EXCEPT
            !.dtypes = [n \in 1..Len(df.cols) |->
                          IF df.cols[n] = name THEN dtype ELSE df.dtypes[n]],
            !.rows = [r \in 1..Len(df.rows) |->
                        [n \in 1..Len(df.cols) |->
                           IF df.cols[n] = name THEN values[r] ELSE df.rows[r][n]]]]
    ELSE [df EXCEPT
            !.cols = Append(df.cols, name),
            !.dtypes = Append(df.dtypes, dtype),
            !.rows = [r \in 1..Len(df.rows) |-> Append(df.rows[r], values[r])]]

\* The frame restricted to the column positions idx, in that order.
SelectColumns(df, idx) ==
    [df EXCEPT
       !.cols = Pick(df.cols, idx),
       !.dtypes = Pick(df.dtypes, idx),
       !.rows = [r \in 1..Len(df.rows) |-> Pick(df.rows[r], idx)]]

----------------------------------------------------------------------------
(* Table normalisation: the body of the loop of create_cabinet_csv         *)

\* level1.where(mask, level0): the second-level label unless it strips to "".
FlatName(h) == IF Strip(h[2]) # "" THEN h[2] ELSE h[1]

\* new_cols[duplicated].unique(): the repeated names, by first appearance.
DupValues(cols) ==
    Pick(cols, Ascending({n \in 1..Len(cols) :
        /\ \E m \in 1..Len(cols) : m # n /\ cols[m] = cols[n]
        /\ \A m \in 1..(n - 1) : cols[m] # cols[n]}))

\* One pass of the inner loop: the 2nd, 3rd, ... column now called col becomes
\* col_1, col_2, ...
RenameDup(cols, col) ==
    [n \in 1..Len(cols) |->
       LET before == Cardinality({m \in 1..(n - 1) : cols[m] = col})
       IN  IF cols[n] = col /\ before >= 1
           THEN col \o "_" \o ToString(before)
           ELSE cols[n]]

RECURSIVE SuffixLoop(_, _)
SuffixLoop(cols, dupvals) ==
    IF dupvals = <<>> THEN cols
    ELSE SuffixLoop(RenameDup(cols, Head(dupvals)), Tail(dupvals))

\* Lines 52-70: the flattened, suffixed column names of a two-level header.
NewCols(header) ==
    LET flat == [n \in 1..Len(header) |-> FlatName(header[n])]
    IN  SuffixLoop(flat, DupValues(flat))

\* str.contains("Unnamed|^$")
IsUnnamed(name) == Contains(name, "Unnamed") \/ name = ""

\* Line 88: every <[^>]+> removed, scanning left to right.
RECURSIVE StripTags(_)
StripTags(s) ==
    IF s = "" THEN ""
    ELSE IF Chr(s, 1) = "<"
              /\ \E e \in 3..Len(s) :
                    Chr(s, e) = ">" /\ \A m \in 2..(e - 1) : Chr(s, m) # ">"
         THEN LET e == CHOOSE e \in 3..Len(s) :
                         Chr(s, e) = ">" /\ \A m \in 2..(e - 1) : Chr(s, m) # ">"
              IN  StripTags(From(s, e + 1))
         ELSE Chr(s, 1) \o StripTags(From(s, 2))

\* Line 90, first half: every run of whitespace replaced by one space.
RECURSIVE CollapseSpaces(_)
CollapseSpaces(s) ==
    IF s = "" THEN ""
    ELSE IF IsSpace(Chr(s, 1))
         THEN " " \o CollapseSpaces(From(s, SkipSpaces(s, 1)))
         ELSE Chr(s, 1) \o CollapseSpaces(From(s, 2))

CleanName(c) == IF IsText(c) THEN Txt(Strip(CollapseSpaces(StripTags(c.s)))) ELSE c

\* The dtype pandas gives a column of these cells: object once any is text.
DtypeOf(cells) == IF \E n \in 1..Len(cells) : IsText(cells[n]) THEN "object" ELSE "num"

ConstColumn(df, value) == [r \in 1..Len(df.rows) |-> value]

\* Lines 44-92 for one two-level table: the frame appended to processed_dfs.
\* origin[n] is the raw column that column n was read from (0: added here).
NormalizeTable(table, administration) ==
    LET position == table.header[1][1]
        names    == NewCols(table.header)
        kept     == Ascending({n \in 1..Len(names) : ~IsUnnamed(names[n])})
        raw      == [cols   |-> names,
                     dtypes |-> [n \in 1..Len(names) |->
                                   DtypeOf([r \in 1..Len(table.rows) |-> table.rows[r][n]])],
                     rows   |-> table.rows]
        dropped  == SelectColumns(raw, kept)
        withPos  == SetColumn(dropped, "Position", "object",
                              ConstColumn(dropped, Txt(position)))
        withAdm  == SetColumn(withPos, "Administration", "object",
                              ConstColumn(withPos, Txt(administration)))
        nameAt   == ColIndex(withAdm.cols, "Name")
        filtered == IF nameAt > 0
                    THEN [withAdm EXCEPT !.rows =
                            SelectSeq(withAdm.rows,
                                      LAMBDA row : ~IsNA(row[nameAt]) /\ row[nameAt] # Txt("Name"))]
                    ELSE withAdm
        cleaned  == IF nameAt > 0 /\ filtered.dtypes[nameAt] = "object"
                    THEN [filtered EXCEPT !.rows =
                            [r \in 1..Len(filtered.rows) |->
                               [filtered.rows[r] EXCEPT ![nameAt] = CleanName(@)]]]
                    ELSE filtered
        origin   == [n \in 1..Len(cleaned.cols) |-> IF n <= Len(kept) THEN kept[n] ELSE 0]
    IN  [cols |-> cleaned.cols, dtypes |-> cleaned.dtypes, rows |-> cleaned.rows,
         origin |-> origin]

----------------------------------------------------------------------------
(* pandas.concat: lines 102 and 243                                        *)

\* concat with join="inner": only the labels every frame has.
InnerCols(frames) ==
    IF frames = <<>> THEN <<>>
    ELSE SelectSeq(frames[1].cols,
                   LAMBDA c : \A n \in 1..Len(frames) : c \in Range(frames[n].cols))

\* The labels of all frames, each once, by first appearance.
RECURSIVE UnionCols(_)
UnionCols(frames) ==
    IF frames = <<>> THEN <<>>
    ELSE LET before == UnionCols(SubSeq(frames, 1, Len(frames) - 1))
             last   == frames[Len(frames)].cols
             fresh  == Ascending({n \in 1..Len(last) :
                          /\ last[n] \notin Range(before)
                          /\ \A m \in 1..(n - 1) : last[m] # last[n]})
         IN  before \o Pick(last, fresh)

\* concat reindexes a frame whose labels differ from the result's, and a
\* frame with repeated labels cannot be reindexed (InvalidIndexError).
ConcatRaises(frames) ==
    \E m, n \in 1..Len(frames) :
        ~NoDuplicates(frames[m].cols) /\ frames[n].cols # frames[m].cols

RECURSIVE ConcatRows(_, _)
ConcatRows(frames, cols) ==
    IF frames = <<>> THEN <<>>
    ELSE LET f == Head(frames)
         IN  [r \in 1..Len(f.rows) |->
                [n \in 1..Len(cols) |->
                   IF f.cols = cols THEN f.rows[r][n] ELSE CellOf(f, r, cols[n])]]
             \o ConcatRows(Tail(frames), cols)

\* A column that joins integers and floats becomes a float column.
Upcast(rows) ==
    [r \in 1..Len(rows) |->
       [n \in 1..Len(rows[r]) |->
          IF DOMAIN rows[r][n] = {"i"} /\ \E q \in 1..Len(rows) : DOMAIN rows[q][n] = {"f"}
          THEN [f |-> rows[r][n].i]
          ELSE rows[r][n]]]

\* pd.concat(frames, ignore_index=True), when it does not raise.
ConcatFrames(frames) ==
    LET cols == IF \A n \in 1..Len(frames) : frames[n].cols = frames[1].cols
                THEN frames[1].cols
                ELSE UnionCols(frames)
    IN  [cols   |-> cols,
         dtypes |-> [n \in 1..Len(cols) |->
                       IF \E m \in 1..Len(frames) :
                             /\ HasCol(frames[m], cols[n])
                             /\ frames[m].dtypes[ColIndex(frames[m].cols, cols[n])] = "object"
                       THEN "object" ELSE "num"],
         rows   |-> Upcast(ConcatRows(frames, cols))]

----------------------------------------------------------------------------
(* Field derivation: lines 104-158                                         *)

\* Line 105: replace(["", "N/A"], pd.NA)
ReplaceNulls(df) ==
    [df EXCEPT !.rows =
       [r \in 1..Len(df.rows) |->
          [n \in 1..Len(df.cols) |->
             IF df.rows[r][n] \in {Txt(""), Txt("N/A")} THEN NA ELSE df.rows[r][n]]]]

Column(df, name) == [r \in 1..Len(df.rows) |-> CellOf(df, r, name)]

\* Line 112: str.extract(r"(.*?)\s*\(").fillna(dob_col) on one cell: the
\* shortest prefix that optional whitespace and "(" follow, else the text.
RECURSIVE LazyPrefix(_, _)
LazyPrefix(t, e) ==
    IF e > Len(t) THEN t
    ELSE IF Chr(t, SkipSpaces(t, e + 1)) = "(" THEN SubSeq(t, 1, e)
         ELSE LazyPrefix(t, e + 1)

DatePart(c) == IF IsText(c) THEN Txt(LazyPrefix(c.s, 0)) ELSE NA

MonthNames ==
    <<"January", "February", "March", "April", "May", "June", "July",
      "August", "September", "October", "November", "December">>

IsLeap(y) == (y % 4 = 0 /\ y % 100 # 0) \/ y % 400 = 0

DaysIn(y, m) ==
    IF m = 2 THEN (IF IsLeap(y) THEN 29 ELSE 28)
    ELSE IF m \in {4, 6, 9, 11} THEN 30 ELSE 31

\* "<Month> <day>, <year>", read as the format "%B %d, %Y" reads it.
ParseMonthDayYear(t) ==
    IF \E m \in 1..12 : StartsWithAt(t, 1, MonthNames[m] \o " ")
    THEN LET m    == CHOOSE m \in 1..12 : StartsWithAt(t, 1, MonthNames[m] \o " ")
             d1   == Len(MonthNames[m]) + 2
             d2   == SkipDigits(t, d1)
             y1   == IF StartsWithAt(t, d2, ", ") THEN d2 + 2 ELSE 0
             year == StrToNat(SubSeq(t, y1, y1 + 3))
             day  == StrToNat(SubSeq(t, d1, d2 - 1))
         IN  IF /\ d2 - d1 \in 1..2
                /\ y1 > 0
                /\ DigitsAt(t, y1, 4)
                /\ y1 + 3 = Len(t)
                /\ year >= 1
                /\ day \in 1..DaysIn(year, m)
             THEN [d |-> <<year, m, day>>]
             ELSE NA
    ELSE NA

\* A bare four-digit year reads as the first of January of that year.
ParseYearOnly(t) ==
    IF Len(t) = 4 /\ DigitsAt(t, 1, 4) /\ StrToNat(t) >= 1
    THEN [d |-> <<StrToNat(t), 1, 1>>]
    ELSE NA

\* Line 114: pd.to_datetime(date_part, errors="coerce").  pandas (2.x, which
\* read_csv's dtype_backend needs) guesses a format from the first value and
\* reads every value with it; when it can guess none it reads each value on
\* its own.
ToDatetime(parts) ==
    LET texts == Ascending({r \in 1..Len(parts) : IsText(parts[r])})
        first == IF texts = <<>> THEN "" ELSE Strip(parts[texts[1]].s)
        guess == IF ParseMonthDayYear(first) # NA THEN "%B %d, %Y"
                 ELSE IF ParseYearOnly(first) # NA THEN "%Y" ELSE "none"
    IN  [r \in 1..Len(parts) |->
           IF ~IsText(parts[r]) THEN NA
           ELSE LET t == Strip(parts[r].s)
                IN  IF guess # "%Y" /\ ParseMonthDayYear(t) # NA THEN ParseMonthDayYear(t)
                    ELSE IF guess # "%B %d, %Y" THEN ParseYearOnly(t)
                    ELSE NA]

\* Line 124: str.extract(r"(\d{4})"): the first four digits in a row.
RECURSIVE FirstFourDigits(_, _)
FirstFourDigits(t, n) ==
    IF n + 3 > Len(t) THEN NA
    ELSE IF DigitsAt(t, n, 4) THEN Txt(SubSeq(t, n, n + 3))
         ELSE FirstFourDigits(t, n + 1)

\* The numeral of the number a run of digits denotes.
RECURSIVE Numeral(_)
Numeral(t) == IF Len(t) > 1 /\ Chr(t, 1) = "0" THEN Numeral(From(t, 2)) ELSE t

\* pd.to_numeric(..., errors="coerce") on an extracted run of digits.
ToNumeric(c) == IF IsText(c) THEN [i |-> Numeral(c.s)] ELSE NA

\* Birth Year without the fallback of lines 120-127.
BirthYearOfDateOnly(date, dob) ==
    IF date # NA THEN [i |-> ToString(date.d[1])] ELSE NA

\* Lines 117-127: the year of the date, else the first four digits of the text.
BirthYear(date, dob) ==
    IF date # NA THEN [i |-> ToString(date.d[1])]
    ELSE IF IsText(dob) THEN ToNumeric(FirstFourDigits(dob.s, 1)) ELSE NA

\* The pattern with one spelling only.
AgeTokenLowerOnly == {"age"}

\* Line 130: the spellings the pattern lists.
AgeTokens == {"age", "Age", "AGE"}

\* Line 130: str.extract(r"(?:age|Age|AGE)\s*(\d+)"): the digits after the
\* first token that optional whitespace and a digit follow.
RECURSIVE ExtractAge(_, _)
ExtractAge(t, n) ==
    IF n + 2 > Len(t) THEN NA
    ELSE LET p == SkipSpaces(t, n + 3)
         IN  IF SubSeq(t, n, n + 2) \in AgeTokens /\ IsDigit(Chr(t, p))
             THEN Txt(SubSeq(t, p, SkipDigits(t, p) - 1))
             ELSE ExtractAge(t, n + 1)

AgeOf(dob) == IF IsText(dob) THEN ToNumeric(ExtractAge(dob.s, 1)) ELSE NA

AsFloat(cells) ==
    [r \in 1..Len(cells) |-> IF DOMAIN cells[r] = {"i"} THEN [f |-> cells[r].i] ELSE cells[r]]

\* A numeric column that holds NaN is float64: its whole numbers are floats.
AsFloatIfAnyNA(cells) ==
    IF \E r \in 1..Len(cells) : IsNA(cells[r]) THEN AsFloat(cells) ELSE cells

\* Lines 108-133.
DeriveBirth(df) ==
    IF ~HasCol(df, "Date of birth") THEN df
    ELSE LET dob   == Column(df, "Date of birth")
             dates == ToDatetime([r \in 1..Len(dob) |-> DatePart(dob[r])])
             d1    == SetColumn(df, "Birth Date", "num", dates)
             years == [r \in 1..Len(dob) |-> BirthYear(dates[r], dob[r])]
             d2    == SetColumn(d1, "Birth Year", "num",
                                IF \E r \in 1..Len(dob) : IsNA(dates[r])
                                THEN AsFloat(years) ELSE years)
         IN  SetColumn(d2, "Age", "num",
                       AsFloatIfAnyNA([r \in 1..Len(dob) |-> AgeOf(dob[r])]))

Separators == {"~", "=", "-"}

\* Line 138: (\d{4})(?:\s*[~=-]\s*(?:present|(\d{4})))? searched in t from n
\* on: <<first group, second group>> of the first match, <<NA, NA>> without.
RECURSIVE ExtractYears(_, _)
ExtractYears(t, n) ==
    IF n + 3 > Len(t) THEN <<NA, NA>>
    ELSE IF DigitsAt(t, n, 4)
         THEN LET sep == SkipSpaces(t, n + 4)
                  nxt == SkipSpaces(t, sep + 1)
              IN  <<Txt(SubSeq(t, n, n + 3)),
                    IF /\ Chr(t, sep) \in Separators
                       /\ ~StartsWithAt(t, nxt, "present")
                       /\ DigitsAt(t, nxt, 4)
                    THEN Txt(SubSeq(t, nxt, nxt + 3))
                    ELSE NA>>
         ELSE ExtractYears(t, n + 1)

YearsOf(c) == IF IsText(c) THEN ExtractYears(c.s, 1) ELSE <<NA, NA>>

\* str.contains("present") without case=False.
IsCurrentCaseSensitive(c) == [b |-> IsText(c) /\ Contains(c.s, "present")]

\* Line 146: str.contains("present", case=False, na=False)
IsCurrent(c) == [b |-> IsText(c) /\ Contains(LowerStr(c.s), "present")]

\* Lines 136-148.
DeriveYears(df) ==
    IF ~HasCol(df, "Years") THEN df
    ELSE LET years == Column(df, "Years")
             y1    == SetColumn(df, "Start year", "num",
                                AsFloatIfAnyNA([r \in 1..Len(years) |->
                                                  ToNumeric(YearsOf(years[r])[1])]))
             y2    == SetColumn(y1, "End year", "num",
                                AsFloatIfAnyNA([r \in 1..Len(years) |->
                                                  ToNumeric(YearsOf(years[r])[2])]))
         IN  SetColumn(y2, "Current", "num",
                       [r \in 1..Len(years) |-> IsCurrent(years[r])])

RoleWords == {"senator", "representative", "governor"}

IsAlphaOrSpace(c) == IsAlpha(c) \/ IsSpace(c)

RECURSIVE SkipAlphaSpace(_, _)
SkipAlphaSpace(t, n) ==
    IF n <= Len(t) /\ IsAlphaOrSpace(Chr(t, n)) THEN SkipAlphaSpace(t, n + 1) ELSE n

\* Lines 153-158: (?:senator|representative|governor)(?:\s+from|\s+of)\s+([A-Za-z\s]+)
\* with re.IGNORECASE, searched in t from n on.
RECURSIVE ExtractState(_, _)
ExtractState(t, n) ==
    IF n > Len(t) THEN NA
    ELSE LET low   == LowerStr(t)
             roles == {w \in RoleWords : StartsWithAt(low, n, w)}
             w     == CHOOSE w \in roles : TRUE
             sp1   == n + Len(w)
             prep  == SkipSpaces(t, sp1)
             sp2   == IF StartsWithAt(low, prep, "from") THEN prep + 4
                      ELSE IF StartsWithAt(low, prep, "of") THEN prep + 2 ELSE 0
             run   == SkipSpaces(t, sp2)
             stop  == SkipAlphaSpace(t, run)
         IN  IF roles # {} /\ prep > sp1 /\ sp2 > 0 /\ run > sp2
                  /\ (stop > run \/ run - sp2 >= 2)
             THEN (IF stop > run THEN Txt(SubSeq(t, run, stop - 1)) ELSE Txt(" "))
             ELSE ExtractState(t, n + 1)

StateOf(c) == IF IsText(c) THEN ExtractState(c.s, 1) ELSE NA

\* Lines 151-158.
DeriveState(df) ==
    IF HasCol(df, "State") \/ ~HasCol(df, "Background") THEN df
    ELSE SetColumn(df, "State", "object",
                   [r \in 1..Len(df.rows) |-> StateOf(CellOf(df, r, "Background"))])

DtypeOfCol(df, name) == df.dtypes[ColIndex(df.cols, name)]

\* The .str accessor of a column that is not of object dtype raises
\* AttributeError (lines 112, 139, 156).
StrAccessorRaises(df) ==
    \/ HasCol(df, "Date of birth") /\ DtypeOfCol(df, "Date of birth") # "object"
    \/ HasCol(df, "Years") /\ DtypeOfCol(df, "Years") # "object"
    \/ /\ ~HasCol(df, "State")
       /\ HasCol(df, "Background")
       /\ DtypeOfCol(df, "Background") # "object"

DeriveFields(df) == DeriveState(DeriveYears(DeriveBirth(ReplaceNulls(df))))

\* Line 161: dropna(axis=1, how="all"); lines 164-167: the redundant columns.
columns_to_drop == {"Reference", "Refs", "Notes"}

DropColumns(df) ==
    SelectColumns(df, Ascending({n \in 1..Len(df.cols) :
        /\ \E r \in 1..Len(df.rows) : ~IsNA(df.rows[r][n])
        /\ df.cols[n] \notin columns_to_drop}))

----------------------------------------------------------------------------
(* Column order, type fixes and storage: lines 169-202 and 226-259         *)

priority_cols ==
    <<"Administration", "Position", "Name", "Age", "State", "Date of birth",
      "Birth Year", "Background">>

\* Characters by code point; "~" and "=" (the dashes) come after the rest.
CodePointOrder ==
    " (),-./0123456789:<>ABCDEFGHIJKLMNOPQRSTUVWXYZ_abcdefghijklmnopqrstuvwxyz~="

RECURSIVE LessStr(_, _)
LessStr(a, b) ==
    IF b = "" THEN FALSE
    ELSE IF a = "" THEN TRUE
    ELSE IF Chr(a, 1) = Chr(b, 1) THEN LessStr(From(a, 2), From(b, 2))
    ELSE IndexIn(CodePointOrder, Chr(a, 1)) < IndexIn(CodePointOrder, Chr(b, 1))

\* Index.difference(priority_cols): the other labels, each once, sorted.
RemainingCols(cols) ==
    LET S == Range(cols) \ Range(priority_cols)
    IN  [m \in 1..Cardinality(S) |->
           CHOOSE x \in S : Cardinality({y \in S : LessStr(y, x)}) = m - 1]

\* Lines 180-186: the labels the frame is indexed with.
OrderedLabels(cols) ==
    Pick(priority_cols, Ascending({n \in 1..Len(priority_cols) : priority_cols[n] \in Range(cols)}))
    \o RemainingCols(cols)

\* df[labels]: for each label in turn, every column that carries it.
RECURSIVE PositionsOfLabels(_, _)
PositionsOfLabels(cols, labels) ==
    IF labels = <<>> THEN <<>>
    ELSE Ascending({n \in 1..Len(cols) : cols[n] = Head(labels)})
         \o PositionsOfLabels(cols, Tail(labels))

Reorder(df) == SelectColumns(df, PositionsOfLabels(df.cols, OrderedLabels(df.cols)))

Pad(n, width) ==
    LET t == ToString(n)
    IN  IF Len(t) >= width THEN t ELSE SubSeq("0000", 1, width - Len(t)) \o t

\* Line 190: dt.strftime("%Y-%m-%d")
Strftime(c) ==
    IF DOMAIN c = {"d"}
    THEN Txt(Pad(c.d[1], 4) \o "-" \o Pad(c.d[2], 2) \o "-" \o Pad(c.d[3], 2))
    ELSE NA

FormatBirthDate(df) ==
    LET at == ColIndex(df.cols, "Birth Date")
    IN  IF at = 0 THEN df
        ELSE [df EXCEPT
                !.rows = [r \in 1..Len(df.rows) |->
                            [n \in 1..Len(df.cols) |->
                               IF df.cols[n] = "Birth Date" THEN Strftime(df.rows[r][n])
                               ELSE df.rows[r][n]]],
                !.dtypes[at] = "object"]

\* Line 195: astype("Int64") of a float column.
ToInt64(c) == IF DOMAIN c = {"f"} THEN [i |-> c.f] ELSE c

\* Lines 194-195 for one of the three columns.
AsInt64(df, col) ==
    [df EXCEPT !.rows =
       [r \in 1..Len(df.rows) |->
          [n \in 1..Len(df.cols) |->
             IF df.cols[n] = col THEN ToInt64(df.rows[r][n]) ELSE df.rows[r][n]]]]

\* Lines 193-195.
FixIntegers(df) == AsInt64(AsInt64(AsInt64(df, "Birth Year"), "Start year"), "End year")

\* Line 190 on a "Birth Date" column that line 114 did not make: the .dt
\* accessor of an object column raises AttributeError.
SaveRaises(df) == HasCol(df, "Birth Date") /\ DtypeOfCol(df, "Birth Date") = "object"

\* One field of to_csv: NaN is the empty field (na_rep ""), a float shows
\* its fraction, a boolean its Python name.
FormatCell(c) ==
    IF IsText(c) THEN c.s
    ELSE IF DOMAIN c = {"i"} THEN c.i
    ELSE IF DOMAIN c = {"f"} THEN c.f \o ".0"
    ELSE IF DOMAIN c = {"b"} THEN (IF c.b THEN "True" ELSE "False")
    ELSE ""

\* Lines 200-202 and 252-259: the file's header and its rows of fields.
ToCsv(df) ==
    [header |-> df.cols,
     fields |-> [r \in 1..Len(df.rows) |->
                   [n \in 1..Len(df.cols) |-> FormatCell(df.rows[r][n])]]]

NoFile == [missing |-> TRUE]

\* read_csv's default NaN tokens (keep_default_na=True) and na_values.
NaValues ==
    {"", "N/A"} \cup
    {"#N/A", "#N/A N/A", "#NA", "-1.#IND", "-1.#QNAN", "-NaN", "-nan", "1.#IND",
     "1.#QNAN", "<NA>", "N/A", "NA", "NULL", "NaN", "None", "n/a", "nan", "null"}

IsIntText(t) == t # "" /\ SkipDigits(t, 1) = Len(t) + 1

IsFloatText(t) ==
    /\ Len(t) >= 3
    /\ SubSeq(t, Len(t) - 1, Len(t)) = ".0"
    /\ IsIntText(SubSeq(t, 1, Len(t) - 2))

BoolTexts == {"True", "TRUE", "true", "False", "FALSE", "false"}

\* The type read_csv infers for a column from its fields that are not NaN.
InferType(fields) ==
    LET given == {fields[r] : r \in {r \in 1..Len(fields) : fields[r] \notin NaValues}}
    IN  IF given = {} THEN "empty"
        ELSE IF \A t \in given : IsIntText(t) THEN "Int64"
        ELSE IF \A t \in given : IsIntText(t) \/ IsFloatText(t) THEN "Float64"
        ELSE IF \A t \in given : t \in BoolTexts THEN "boolean"
        ELSE "string"

ParseField(t, type) ==
    IF t \in NaValues THEN NA
    ELSE IF type = "Int64" THEN [i |-> Numeral(t)]
    ELSE IF type = "Float64"
         THEN [f |-> Numeral(IF IsFloatText(t) THEN SubSeq(t, 1, Len(t) - 2) ELSE t)]
    ELSE IF type = "boolean" THEN [b |-> t \in {"True", "TRUE", "true"}]
    ELSE Txt(t)

\* read_csv renames a repeated header label X to X.1, X.2, ...
MangleDupes(header) ==
    [n \in 1..Len(header) |->
       LET before == Cardinality({m \in 1..(n - 1) : header[m] = header[n]})
       IN  IF before = 0 THEN header[n] ELSE header[n] \o "." \o ToString(before)]

\* A file that is missing, or holds no column, makes read_csv raise.
ReadRaises(file) == file = NoFile \/ file.header = <<>>

\* Lines 226-231.
ReadCsv(file) ==
    LET type == [n \in 1..Len(file.header) |->
                   InferType([r \in 1..Len(file.fields) |-> file.fields[r][n]])]
    IN  [cols   |-> MangleDupes(file.header),
         dtypes |-> [n \in 1..Len(file.header) |->
                       IF type[n] = "string" THEN "object" ELSE "num"],
         rows   |-> [r \in 1..Len(file.fields) |->
                       [n \in 1..Len(file.header) |-> ParseField(file.fields[r][n], type[n])]]]

----------------------------------------------------------------------------
(* The script: lines 265-312                                               *)

\* Lines 267-283 (the pages' administrations and output files).
cabinet_sources ==
    <<[administration |-> "Trump 2nd", output_file |-> "trump_second_cabinet.csv"],
      [administration |-> "Trump 1st", output_file |-> "trump_first_cabinet.csv"],
      [administration |-> "Biden", output_file |-> "biden_cabinet.csv"]>>

\* Line 208: combine_cabinets' default output file.
all_cabinets == "all_cabinets.csv"

Files == {cabinet_sources[n].output_file : n \in 1..Len(cabinet_sources)} \cup {all_cabinets}

\* create_cabinet_csv returns to the loop of lines 290-298, which goes on to
\* the next page or, after the last, to combine_cabinets.
AfterReturn == IF k < Len(sources) THEN "main" ELSE "read"

\* Line 29: pd.read_html(url, match="Date of birth").  It is outside the
\* try of lines 38-95: what it raises leaves create_cabinet_csv.
Fetch ==
    /\ pc = "main"
    /\ IF sources[k].fetch = "error"
       THEN /\ pc' = "raised"
            /\ UNCHANGED <<df_list, i, processed_dfs>>
       ELSE /\ df_list' = sources[k].tables
            /\ i' = 1
            /\ processed_dfs' = <<>>
            /\ pc' = "loop"
    /\ UNCHANGED <<sources, k, final_df, results, csv_files, storage, dfs, j, combined_df>>

\* Lines 35-95: one pass of the loop over df_list.
ProcessTable ==
    /\ pc = "loop"
    /\ i <= Len(df_list)
    /\ processed_dfs' =
          IF df_list[i].nlevels = 1 THEN processed_dfs
          ELSE Append(processed_dfs,
                      NormalizeTable(df_list[i], cabinet_sources[k].administration))
    /\ i' = i + 1
    /\ pc' = IF i = Len(df_list) THEN "derive" ELSE "loop"
    /\ UNCHANGED <<sources, k, df_list, final_df, results, csv_files, storage, dfs, j,
                   combined_df>>

\* Lines 97-167: the early return, the concatenation, the derived fields and
\* the dropped columns.  None of it is inside a try.
Derive ==
    /\ pc = "derive"
    /\ IF processed_dfs = <<>>
       THEN /\ results' = Append(results, EmptyDF)
            /\ csv_files' = Append(csv_files, cabinet_sources[k].output_file)
            /\ k' = k + 1
            /\ pc' = AfterReturn
            /\ UNCHANGED final_df
       ELSE IF ConcatRaises(processed_dfs) \/ StrAccessorRaises(ConcatFrames(processed_dfs))
       THEN /\ pc' = "raised"
            /\ UNCHANGED <<final_df, results, csv_files, k>>
       ELSE /\ final_df' = DropColumns(DeriveFields(ConcatFrames(processed_dfs)))
            /\ pc' = "save"
            /\ UNCHANGED <<results, csv_files, k>>
    /\ UNCHANGED <<sources, df_list, i, processed_dfs, storage, dfs, j, combined_df>>

\* Lines 169-205: the column order, the type fixes, the file and the return.
Save ==
    /\ pc = "save"
    /\ IF SaveRaises(final_df)
       THEN /\ pc' = "raised"
            /\ UNCHANGED <<final_df, results, csv_files, storage, k>>
       ELSE LET out == FixIntegers(FormatBirthDate(Reorder(final_df)))
            IN  /\ final_df' = out
                /\ storage' = [storage EXCEPT ![cabinet_sources[k].output_file] = ToCsv(out)]
                /\ results' = Append(results, out)
                /\ csv_files' = Append(csv_files, cabinet_sources[k].output_file)
                /\ k' = k + 1
                /\ pc' = AfterReturn
    /\ UNCHANGED <<sources, df_list, i, processed_dfs, dfs, j, combined_df>>

\* Lines 223-237: one pass of the loop over csv_files; a file that cannot be
\* read is reported and skipped.
ReadFile ==
    /\ pc = "read"
    /\ j <= Len(csv_files)
    /\ dfs' = IF ReadRaises(storage[csv_files[j]]) THEN dfs
              ELSE Append(dfs, ReadCsv(storage[csv_files[j]]))
    /\ j' = j + 1
    /\ pc' = IF j = Len(csv_files) THEN "concat" ELSE "read"
    /\ UNCHANGED <<sources, k, df_list, i, processed_dfs, final_df, results, csv_files,
                   storage, combined_df>>

\* Lines 239-262.
Combine ==
    /\ pc = "concat"
    /\ IF dfs = <<>>
       THEN /\ combined_df' = EmptyDF
            /\ UNCHANGED storage
       ELSE /\ combined_df' = ConcatFrames(dfs)
            /\ storage' = [storage EXCEPT ![all_cabinets] = ToCsv(ConcatFrames(dfs))]
    /\ pc' = "done"
    /\ UNCHANGED <<sources, k, df_list, i, processed_dfs, final_df, results, csv_files,
                   dfs, j>>

Next == Fetch \/ ProcessTable \/ Derive \/ Save \/ ReadFile \/ Combine

\* The state in which the script starts on the pages given.
Start(pages) ==
    /\ sources = pages
    /\ k = 1
    /\ pc = "main"
    /\ df_list = <<>>
    /\ i = 1
    /\ processed_dfs = <<>>
    /\ final_df = EmptyDF
    /\ results = <<>>
    /\ csv_files = <<>>
    /\ storage = [file \in Files |-> NoFile]
    /\ dfs = <<>>
    /\ j = 1
    /\ combined_df = EmptyDF

----------------------------------------------------------------------------
(* The pages the script is run on                                          *)

MaxCols == 3

MaxYearFrags == 3

MaxDobFrags == 3

MaxSources == 2

Page(tables) == [fetch |-> "ok", tables |-> tables]

\* A page whose fetch fails (no connection, no matching table).
ErrorPage == [fetch |-> "error", tables |-> <<>>]

PositionLabel == "Secretary of State"

TwoLevel(labels, rows) ==
    [nlevels |-> 2,
     header  |-> [n \in 1..Len(labels) |-> <<PositionLabel, labels[n]>>],
     rows    |-> rows]

\* A table with a plain header: read_html gives it no MultiIndex.
OneLevelTable ==
    [nlevels |-> 1,
     header  |-> <<<<"Name", "">>, <<"Date of birth", "">>>>,
     rows    |-> <<<<Txt("Ann Lee"), Txt("May 1, 1950 (age 74)")>>>>]

PartyTable == TwoLevel(<<"Name", "Party">>, <<<<Txt("Cy Orr"), Txt("Dem")>>>>)

HeaderEntries ==
    {<<PositionLabel, label>> :
        label \in {"Name", "Years", "Party", "Party_1", "", "Unnamed: 0_level_1", "Notes"}}
    \cup {<<"", "">>}

Headers == UNION {[1..n -> HeaderEntries] : n \in 1..MaxCols}

NameCells ==
    {Txt("Ann Lee"), Txt("<b>Ann</b>  Lee "), Txt("<br>"), Txt("Name"),
     Txt("<i>Name</i>"), NA}

RawCell(entry, name) ==
    IF entry[2] = "Name" THEN name
    ELSE IF entry[2] = "Years" THEN Txt("2021~present")
    ELSE IF Contains(entry[2], "Unnamed") THEN NA
    ELSE Txt("x")

HeaderTable(header, name) ==
    [nlevels |-> 2,
     header  |-> header,
     rows    |-> <<[n \in 1..Len(header) |-> RawCell(header[n], name)],
                   [n \in 1..Len(header) |-> RawCell(header[n], Txt("Bob Ray"))]>>]

\* Tables of every header shape, alone or followed by a second table.
InitTables ==
    \E pages \in
        {<<ErrorPage>>, <<Page(<<OneLevelTable>>)>>, <<Page(<<OneLevelTable, PartyTable>>)>>}
        \cup {<<Page(<<HeaderTable(header, name)>> \o rest)>> :
                <<header, name, rest>> \in
                   {e \in Headers \X NameCells \X {<<>>, <<PartyTable>>} :
                       e[2] = Txt("Ann Lee") \/ \E n \in 1..Len(e[1]) : e[1][n][2] = "Name"}} :
        Start(pages)

SpecTables == InitTables /\ [][Next]_vars

\* Every text made of at most n of the fragments, in any order.
RECURSIVE Texts(_, _)
Texts(frags, n) ==
    IF n = 0 THEN {""}
    ELSE Texts(frags, n - 1) \cup {t \o g : t \in Texts(frags, n - 1), g \in frags}

YearFrags == {"2017", "2019", "19", " ", "-", "~", "present", "Present"}

\* A member with a Years text, and a second member without one.
YearsTable(text) ==
    TwoLevel(<<"Name", "Years">>,
             <<<<Txt("Ann Lee"), text>>, <<Txt("Bob Ray"), NA>>>>)

InitYears ==
    \E pages \in
        {<<ErrorPage>>, <<Page(<<OneLevelTable>>)>>, <<Page(<<YearsTable(NA)>>)>>}
        \cup {<<Page(<<YearsTable(Txt(t))>>)>> : t \in Texts(YearFrags, MaxYearFrags)} :
        Start(pages)

SpecYears == InitYears /\ [][Next]_vars

DobFrags == {"May 1, 1950", "1950", "c. ", " ", "(", "age 74", "AGE 9", "aGe 5"}

DobTable(first, second) ==
    TwoLevel(<<"Name", "Date of birth">>,
             <<<<Txt("Ann Lee"), first>>, <<Txt("Bob Ray"), second>>>>)

InitDob ==
    \E pages \in
        {<<ErrorPage>>, <<Page(<<OneLevelTable>>)>>, <<Page(<<DobTable(NA, NA)>>)>>}
        \cup {<<Page(<<DobTable(Txt(t), NA)>>)>> : t \in Texts(DobFrags, MaxDobFrags)}
        \cup {<<Page(<<DobTable(Txt(first), Txt(t))>>)>> :
                first \in {"June 12, 1946 (Age 79)", "1946"}, t \in Texts(DobFrags, 1)} :
        Start(pages)

SpecDob == InitDob /\ [][Next]_vars

CabinetPages ==
    {ErrorPage,
     Page(<<OneLevelTable>>),
     Page(<<YearsTable(Txt("2021~present"))>>),
     Page(<<DobTable(Txt("May 1, 1950 (age 74)"), Txt("c. 1950"))>>),
     Page(<<DobTable(Txt("May 1, 1950 (age 74)"), Txt("June 12, 1946 (Age 79)")),
            PartyTable>>),
     Page(<<TwoLevel(<<"Name", "Background", "Party">>,
                     <<<<Txt("None"), Txt("Former governor of Ohio"), Txt("NA")>>,
                       <<Txt("Di Poe"), Txt("N/A"), Txt("Dem")>>>>)>>),
     Page(<<TwoLevel(<<"Party", "Party", "Party_1">>,
                     <<<<Txt("Dem"), Txt("Rep"), Txt("Ind")>>>>)>>)}

\* The script run on one page after the other.
InitCombine ==
    \E pages \in UNION {[1..n -> CabinetPages] : n \in 1..MaxSources} : Start(pages)

SpecCombine == InitCombine /\ [][Next]_vars

----------------------------------------------------------------------------
(* Properties                                                              *)

Min(S) == CHOOSE n \in S : \A m \in S : n <= m

TextOf(c) == IF IsText(c) THEN c.s ELSE ""

\* C1: the column names of a normalised table are pairwise distinct.
C1_DistinctNames ==
    \A n \in 1..Len(processed_dfs) : NoDuplicates(processed_dfs[n].cols)

\* The labels of the priority list that occur in cols, in the list's order,
\* then the other labels of cols in the order cols has them.
PriorityThenExisting(cols) ==
    SelectSeq(priority_cols, LAMBDA c : c \in Range(cols))
    \o SelectSeq(cols, LAMBDA c : c \notin Range(priority_cols))

\* C2: the saved dataset has the priority columns first, in the list's
\* order, and every other column after them in the order it had before.
C2_ExistingOrderKept ==
    [][pc = "save" /\ pc' # "raised" => final_df'.cols = PriorityThenExisting(final_df.cols)]_vars

\* C3: in a returned dataset with a Name column every row has a Name that
\* is text, is not empty and is not the header token "Name".
C3_NameMeaningful ==
    \A n \in 1..Len(results) :
        HasCol(results[n], "Name") =>
            \A r \in 1..Len(results[n].rows) :
                LET name == CellOf(results[n], r, "Name")
                IN  IsText(name) /\ name.s # "" /\ name.s # "Name"

\* C4: no failure of a fetch, a table or a derivation leaves
\* create_cabinet_csv or combine_cabinets as an exception.
C4_NeverRaises == pc # "raised"

IsNumber(c) == DOMAIN c = {"i"} \/ DOMAIN c = {"f"}

NumberOf(c) == IF DOMAIN c = {"i"} THEN c.i ELSE c.f

SameNumber(a, b) == IsNumber(a) /\ IsNumber(b) /\ NumberOf(a) = NumberOf(b)

\* The number of rows of the frames before frame n.
RECURSIVE RowsBefore(_, _)
RowsBefore(frames, n) ==
    IF n <= 1 THEN 0 ELSE RowsBefore(frames, n - 1) + Len(frames[n - 1].rows)

\* C5: the combined dataset has the union of the read datasets' columns,
\* each once, and exactly their rows, dataset after dataset and row after
\* row; a row keeps the values of its dataset's columns and has every other
\* column absent.
C5_CombineIsUnion ==
    pc = "done" =>
        IF dfs = <<>> THEN combined_df = EmptyDF
        ELSE /\ Range(combined_df.cols) = UNION {Range(dfs[n].cols) : n \in 1..Len(dfs)}
             /\ NoDuplicates(combined_df.cols)
             /\ Len(combined_df.rows) = RowsBefore(dfs, Len(dfs) + 1)
             /\ \A n \in 1..Len(dfs) : \A r \in 1..Len(dfs[n].rows) :
                  \A c \in Range(combined_df.cols) :
                     LET got == CellOf(combined_df, RowsBefore(dfs, n) + r, c)
                     IN  IF HasCol(dfs[n], c)
                         THEN got = CellOf(dfs[n], r, c) \/ SameNumber(got, CellOf(dfs[n], r, c))
                         ELSE got = NA

\* Two datasets were combined, each with rows and with a column the other
\* lacks.
C5_Witness ==
    /\ pc = "done"
    /\ Len(dfs) = 2
    /\ dfs[1].rows # <<>> /\ dfs[2].rows # <<>>
    /\ Range(dfs[1].cols) \ Range(dfs[2].cols) # {}
    /\ Range(dfs[2].cols) \ Range(dfs[1].cols) # {}

nullable_integer_fields == {"Birth Year", "Start year", "End year"}

\* C6: every dataset written and read back has the same cells: a cell is
\* absent after reading only if it was absent, "" or "N/A" when written,
\* and any other text comes back as the same text (outside the nullable
\* integer fields).
C6_RoundTrip ==
    pc = "concat" /\ Len(dfs) = Len(results) =>
        \A n \in 1..Len(dfs) : \A r \in 1..Len(results[n].rows) :
            \A c \in 1..Len(results[n].cols) :
                LET written == results[n].rows[r][c]
                    read    == dfs[n].rows[r][c]
                IN  /\ IsNA(read) => written \in {NA, Txt(""), Txt("N/A")}
                    /\ (/\ IsText(written)
                        /\ written.s \notin {"", "N/A"}
                        /\ results[n].cols[c] \notin nullable_integer_fields) => read = written

\* C7: a column whose flattened name (the second-level label unless it
\* trims to nothing, else the top-level label) is empty or contains
\* "Unnamed" is not in the normalised table.
C7_PlaceholdersDropped ==
    (\A n \in 1..Len(processed_dfs) : df_list[n].nlevels = 2) =>
        \A n \in 1..Len(processed_dfs) : \A c \in 1..Len(df_list[n].header) :
            LET h    == df_list[n].header[c]
                flat == IF Strip(h[2]) # "" THEN h[2] ELSE h[1]
            IN  (flat = "" \/ Contains(flat, "Unnamed")) =>
                    c \notin Range(processed_dfs[n].origin)

YearStarts(t) == {n \in 1..(Len(t) - 3) : DigitsAt(t, n, 4)}

\* The places where a year stands after the year at n, one separator and
\* nothing else but whitespace between them.
EndStarts(t, n) ==
    {e \in YearStarts(t) :
        \E a \in (n + 4)..(e - 1) :
            /\ Chr(t, a) \in {"~", "=", "-"}
            /\ \A m \in ((n + 4)..(e - 1)) \ {a} : Chr(t, m) = " "}

YearAt(t, n) == [i |-> Numeral(SubSeq(t, n, n + 3))]

\* C8: in a returned dataset made from a Years column, every row has
\* Current true or false, true exactly when its Years text holds "present"
\* in some letter case; Start year is the first four digits in a row of the
\* text; End year is the year after the separator that follows them, absent
\* without one; and End year is there only if Start year is.
C8_Tenure ==
    \A n \in 1..Len(results) :
        HasCol(results[n], "Current") =>
            \A r \in 1..Len(results[n].rows) :
                LET t     == TextOf(CellOf(results[n], r, "Years"))
                    start == CellOf(results[n], r, "Start year")
                    end   == CellOf(results[n], r, "End year")
                IN  /\ CellOf(results[n], r, "Current") =
                         [b |-> \E m \in 1..(Len(t) - 6) :
                                   LowerStr(SubSeq(t, m, m + 6)) = "present"]
                    /\ IF YearStarts(t) = {} THEN start = NA /\ end = NA
                       ELSE LET first == Min(YearStarts(t))
                            IN  /\ start = YearAt(t, first)
                                /\ IF EndStarts(t, first) = {} THEN end = NA
                                   ELSE end = YearAt(t, Min(EndStarts(t, first)))
                    /\ (end # NA => start # NA)

\* One row has a start and a different end year and is not current, and
\* another row has no Years text and is not current.
C8_Witness ==
    \E n \in 1..Len(results) : \E r, q \in 1..Len(results[n].rows) :
        /\ CellOf(results[n], r, "Start year") = [i |-> "2017"]
        /\ CellOf(results[n], r, "End year") = [i |-> "2019"]
        /\ CellOf(results[n], r, "Current") = [b |-> FALSE]
        /\ CellOf(results[n], q, "Years") = NA
        /\ CellOf(results[n], q, "Current") = [b |-> FALSE]

TwoDigits(n) == IF n < 10 THEN "0" \o ToString(n) ELSE ToString(n)

\* The text before the first "(" of t (all of t without one), trimmed.
BeforeParenthesis(t) ==
    LET at == {n \in 1..Len(t) : Chr(t, n) = "("}
    IN  Strip(IF at = {} THEN t ELSE SubSeq(t, 1, Min(at) - 1))

\* The dates that the text names: "<Month> <day>, <year>" or a bare year.
DatesNamed(t) ==
    IF Len(t) >= 4 /\ DigitsAt(t, Len(t) - 3, 4)
    THEN LET y == SubSeq(t, Len(t) - 3, Len(t))
         IN  {date \in {y} \X (1..12) \X (1..31) :
                 /\ date[3] <= DaysIn(StrToNat(y), date[2])
                 /\ StrToNat(y) >= 1
                 /\ \/ t = MonthNames[date[2]] \o " " \o ToString(date[3]) \o ", " \o y
                    \/ t = MonthNames[date[2]] \o " " \o TwoDigits(date[3]) \o ", " \o y
                    \/ t = y /\ date[2] = 1 /\ date[3] = 1}
    ELSE {}

IsoText(date) == Txt(date[1] \o "-" \o TwoDigits(date[2]) \o "-" \o TwoDigits(date[3]))

FirstTextRow(df, name) ==
    Min({r \in 1..Len(df.rows) : IsText(CellOf(df, r, name))})

AgeStarts(t, IsToken(_)) ==
    {n \in 1..(Len(t) - 2) :
        /\ IsToken(SubSeq(t, n, n + 2))
        /\ \E p \in (n + 3)..Len(t) :
              IsDigit(Chr(t, p)) /\ \A m \in (n + 3)..(p - 1) : Chr(t, m) = " "}

\* The digits that follow the token at n and its whitespace.
AgeDigits(t, n) ==
    LET p == Min({p \in (n + 3)..Len(t) : IsDigit(Chr(t, p))})
        q == Min({q \in p..Len(t) : ~IsDigit(Chr(t, q + 1))})
    IN  SubSeq(t, p, q)

AgeIs(IsToken(_)) ==
    \A n \in 1..Len(results) :
        HasCol(results[n], "Date of birth") =>
            \A r \in 1..Len(results[n].rows) :
                LET t   == TextOf(CellOf(results[n], r, "Date of birth"))
                    age == CellOf(results[n], r, "Age")
                    at  == AgeStarts(t, IsToken)
                IN  IF at = {} THEN age = NA
                    ELSE LET number == Numeral(AgeDigits(t, Min(at)))
                         IN  age = [i |-> number] \/ age = [f |-> number]

\* C10 as claimed: Age is the number after the first "age", in any mix of
\* letter cases, that optional whitespace and a digit follow, and is absent
\* exactly when the text has no such place.
C10_AnyCase == AgeIs(LAMBDA w : LowerStr(w) = "age")

\* C10 as amended: the same with the token written "age", "Age" or "AGE".
C10_ThreeSpellings == AgeIs(LAMBDA w : w \in {"age", "Age", "AGE"})

\* A row whose text has "aGe 5" before "age 74" has the Age 74.
C10_Witness ==
    \E n \in 1..Len(results) : \E r \in 1..Len(results[n].rows) :
        /\ CellOf(results[n], r, "Date of birth") = Txt("aGe 5age 74")
        /\ CellOf(results[n], r, "Age") = [f |-> "74"]

=============================================================================
